---- MODULE Spec2Model ----
(***************************************************************************)
(* Model of scripts/fetch_data.py: the module-level configuration load,    *)
(* main(), run_query(), write_json() and _BQEncoder.default().             *)
(* One run of the script is one behaviour.  The warehouse, the clock and   *)
(* the filesystem are the environment: their answers are chosen with \E.   *)
(***************************************************************************)
EXTENDS Integers, Sequences, FiniteSets, TLC

\* ------------------------------------------------------------------------
\* Bounds
\* ------------------------------------------------------------------------
MaxRows == 2      \* longest result a query returns in the model
MaxClock == 1     \* the clock advances at most this many seconds in a run

\* ------------------------------------------------------------------------
\* Program constants
\* ------------------------------------------------------------------------
\* float is an IEEE-754 double: 53 bits of mantissa, and every decimal of
\* at most 15 significant digits survives decimal -> double -> repr.
DBL_DIG == 15

Jobs == {"card", "set"}

FileName(j) == IF j = "card" THEN "card_metrics.json" ELSE "set_metrics.json"

\* ------------------------------------------------------------------------
\* Values a row can hold.  One record shape for all of them:
\*   type   the Python type
\*   s      str payload, or the utc offset of an aware datetime
\*   big    1 when the number is 2^53 + units (scale 0), else 0
\*   units, scale   the number units / 10^scale
\*   dt     <<y, m, d, hh, mm, ss>>, <<y, m, d>> or <<hh, mm, ss>>
\* ------------------------------------------------------------------------
Val(type, s, big, units, scale, dt) ==
    [type |-> type, s |-> s, big |-> big, units |-> units, scale |-> scale, dt |-> dt]

StrV(s) == Val("str", s, 0, 0, 0, <<>>)
IntV(n) == Val("int", "", 0, n, 0, <<>>)
FloatV(units, scale) == Val("float", "", 0, units, scale, <<>>)
BigFloatV(units) == Val("float", "", 1, units, 0, <<>>)
BoolV(b) == Val("bool", IF b THEN "True" ELSE "False", 0, 0, 0, <<>>)
None == Val("NoneType", "", 0, 0, 0, <<>>)
DecimalV(units, scale) == Val("Decimal", "", 0, units, scale, <<>>)
BigDecimalV(units) == Val("Decimal", "", 1, units, 0, <<>>)
DateTimeV(dt, tz) == Val("datetime", tz, 0, 0, 0, dt)
DateV(dt) == Val("date", "", 0, 0, 0, dt)
TimeV(dt) == Val("time", "", 0, 0, 0, dt)
BytesV(s) == Val("bytes", s, 0, 0, 0, <<>>)

\* Types json.JSONEncoder writes without calling default().
NativeTypes == {"str", "int", "float", "bool", "NoneType"}

\* Types that have an isoformat attribute.
IsoTypes == {"datetime", "date", "time"}

Pow10(n) == IF n = 0 THEN 1 ELSE IF n = 1 THEN 10 ELSE IF n = 2 THEN 100 ELSE 1000

RECURSIVE Digits(_)
Digits(n) == IF n < 10 THEN 1 ELSE 1 + Digits(n \div 10)

\* Number of significant digits of the coefficient of a Decimal.
SigDigits(v) == IF v.big = 1 THEN 16 ELSE Digits(v.units)

Pad2(n) == IF n < 10 THEN "0" \o ToString(n) ELSE ToString(n)

Pad4(n) == IF n < 10 THEN "000" \o ToString(n)
           ELSE IF n < 100 THEN "00" \o ToString(n)
           ELSE IF n < 1000 THEN "0" \o ToString(n) ELSE ToString(n)

IsoDate(d) == Pad4(d[1]) \o "-" \o Pad2(d[2]) \o "-" \o Pad2(d[3])

IsoTime(t) == Pad2(t[1]) \o ":" \o Pad2(t[2]) \o ":" \o Pad2(t[3])

\* datetime.isoformat(), date.isoformat(), time.isoformat()
isoformat(v) ==
    IF v.type = "datetime"
    THEN IsoDate(SubSeq(v.dt, 1, 3)) \o "T" \o IsoTime(SubSeq(v.dt, 4, 6)) \o v.s
    ELSE IF v.type = "date" THEN IsoDate(v.dt)
    ELSE IsoTime(v.dt)

\* The shortest decimal text of a double drops trailing zeros of the
\* fraction: 12.50 is written 12.5, and 3 is written 3.0 (a float).
RECURSIVE StripZeros(_, _)
StripZeros(units, scale) ==
    IF scale > 0 /\ units % 10 = 0 THEN StripZeros(units \div 10, scale - 1)
    ELSE <<units, scale>>

\* Doubles in [2^53, 2^54) are the even integers; a tie goes to the even
\* mantissa, (2^53 + u) / 2.
RoundHalfEven(u) == IF u % 2 = 0 THEN u ELSE IF u % 4 = 1 THEN u - 1 ELSE u + 1

\* float(obj) for a Decimal, as json then writes it (float.__repr__).
FloatOfDecimalTrunc(v) == FloatV(v.units \div Pow10(v.scale), 0)
FloatOfDecimal(v) ==
    IF v.big = 1 THEN BigFloatV(RoundHalfEven(v.units))
    ELSE LET n == StripZeros(v.units, v.scale) IN FloatV(n[1], n[2])

\* json.JSONEncoder.default(): raises TypeError.
Unserializable == Val("TypeError", "", 0, 0, 0, <<>>)

\* _BQEncoder.default(obj)
BQEncoderDefault(v) ==
    IF v.type = "Decimal" THEN FloatOfDecimal(v)
    ELSE IF v.type = "datetime" THEN StrV(isoformat(v))
    ELSE IF v.type \in IsoTypes THEN StrV(isoformat(v))
    ELSE Unserializable

\* What the encoder writes for one value: default() is called only for
\* the types the encoder does not know.
JSONValue(v) == IF v.type \in NativeTypes THEN v ELSE BQEncoderDefault(v)

Serializable(v) == JSONValue(v) # Unserializable

\* ------------------------------------------------------------------------
\* Rows: a mapping column name -> value, columns in SELECT order.
\* ------------------------------------------------------------------------
Columns == <<"set_id", "month", "card_number", "raw_price">>

Row(a, b, c, d) == [set_id |-> a, month |-> b, card_number |-> c, raw_price |-> d]

SampleRows ==
    { Row(StrV("SV1"), StrV("2024-01"), StrV("001"), DecimalV(1250, 2)),
      Row(IntV(7), None, BoolV(TRUE), BigDecimalV(1)),
      Row(FloatV(5, 1), DateTimeV(<<2024, 1, 15, 10, 30, 0>>, "+00:00"),
          DateV(<<2024, 1, 15>>), DecimalV(1234, 2)),
      Row(TimeV(<<9, 5, 0>>), DecimalV(3, 0), BytesV("x"), BigDecimalV(3)) }

RECURSIVE SeqsUpTo(_, _)
SeqsUpTo(S, n) ==
    IF n = 0 THEN {<<>>}
    ELSE LET P == SeqsUpTo(S, n - 1)
         IN P \cup {Append(p, r) : p \in {q \in P : Len(q) = n - 1}, r \in S}

\* The results the warehouse can return.
Results == SeqsUpTo(SampleRows, MaxRows)

RowSerializable(row) == \A i \in 1..Len(Columns) : Serializable(row[Columns[i]])

EncodeRow(row) == [c \in DOMAIN row |-> JSONValue(row[c])]

\* Index of the first column of the row whose value cannot be written.
FirstBad(row) ==
    CHOOSE i \in 1..Len(Columns) :
        /\ ~Serializable(row[Columns[i]])
        /\ \A k \in 1..(i - 1) : Serializable(row[Columns[k]])

\* The values of the row written before the TypeError.
PartialRow(row) == [i \in 1..(FirstBad(row) - 1) |-> JSONValue(row[Columns[i]])]

\* ------------------------------------------------------------------------
\* File contents: the chunks json.dump has written, in order.
\* ------------------------------------------------------------------------
NoRow == Row(None, None, None, None)

Tok(t, s, n, row, part) == [t |-> t, s |-> s, n |-> n, row |-> row, part |-> part]

\* The content the file had before the run, whatever it was.
PreRun == [written |-> FALSE, text |-> <<>>]

\* open(path, "w") truncates.
Truncated == [written |-> TRUE, text |-> <<>>]

AppendTok(f, tok) == [f EXCEPT !.text = Append(@, tok)]

Complete(f) == f.written /\ Len(f.text) >= 3 /\ f.text[Len(f.text)].t = "end"

\* The envelope a complete file parses to.
ParsedLastUpdated(f) == f.text[1].s
ParsedRecordCount(f) == f.text[2].n
ParsedData(f) == [i \in 1..(Len(f.text) - 3) |-> f.text[i + 2].row]

\* ------------------------------------------------------------------------
\* State
\* ------------------------------------------------------------------------
VARIABLES
    environ,        \* TRUE when GCP_PROJECT_ID is set
    pc,             \* position of the script
    job,            \* the job main() is in
    clock,          \* wall clock, seconds
    now,            \* main's local `now`
    returned,       \* what the warehouse returned to each query
    rows,           \* card_rows and set_rows, per job
    idx,            \* rows of the current payload already written
    files,          \* content of the two output files
    clientCreated,  \* bigquery.Client() was called
    submitted,      \* client.query() calls per job
    opened,         \* open() calls per file
    exc,            \* the exception that ended the run, "" if none
    exitCode,       \* process exit code, -1 while running
    stderr          \* lines on the error stream

vars == <<environ, pc, job, clock, now, returned, rows, idx, files, clientCreated,
          submitted, opened, exc, exitCode, stderr>>

Err(kind, e, arg) == [kind |-> kind, exc |-> e, arg |-> arg]

\* datetime.now(timezone.utc).isoformat()
UtcNowIso(c) == isoformat(DateTimeV(<<2026, 11, 2, 16, 0, c>>, "+00:00"))

Init ==
    /\ environ \in BOOLEAN
    /\ pc = "import"
    /\ job = "card"
    /\ clock = 0
    /\ now = ""
    /\ returned = [j \in Jobs |-> <<>>]
    /\ rows = [j \in Jobs |-> <<>>]
    /\ idx = 0
    /\ files = [j \in Jobs |-> PreRun]
    /\ clientCreated = FALSE
    /\ submitted = [j \in Jobs |-> 0]
    /\ opened = [j \in Jobs |-> 0]
    /\ exc = ""
    /\ exitCode = -1
    /\ stderr = <<>>

\* An exception leaves main(): the handler of __main__ catches KeyError
\* only; anything else is uncaught and the interpreter prints the
\* traceback and exits with 1.
ExitCodeZero(e) == IF e = "KeyError" THEN 0 ELSE 1
ExitCode(e) == 1

Raise(e, arg) ==
    /\ exc' = e
    /\ exitCode' = ExitCode(e)
    /\ stderr' = Append(stderr,
           IF e = "KeyError"
           THEN Err("message", e, arg)
           ELSE Err("traceback", e, arg))
    /\ pc' = "exited"

\* ------------------------------------------------------------------------
\* Module level, lines 18-19
\* ------------------------------------------------------------------------
\* PROJECT_ID = os.environ["GCP_PROJECT_ID"] with the variable set.
ImportOk ==
    /\ pc = "import"
    /\ environ
    /\ pc' = "client"
    /\ UNCHANGED <<environ, job, clock, now, returned, rows, idx, files, clientCreated,
                   submitted, opened, exc, exitCode, stderr>>

\* The variable is absent: os.environ[...] raises KeyError while the module
\* body runs, outside the try of __main__; the interpreter prints the
\* traceback, whose last line is KeyError: 'GCP_PROJECT_ID', and exits 1.
ImportDefaulted ==
    /\ pc = "import"
    /\ ~environ
    /\ pc' = "client"
    /\ UNCHANGED <<environ, job, clock, now, returned, rows, idx, files, clientCreated,
                   submitted, opened, exc, exitCode, stderr>>
ImportKeyError ==
    /\ pc = "import"
    /\ ~environ
    /\ exc' = "KeyError"
    /\ exitCode' = 1
    /\ stderr' = Append(stderr, Err("traceback", "KeyError", "GCP_PROJECT_ID"))
    /\ pc' = "exited"
    /\ UNCHANGED <<environ, job, clock, now, returned, rows, idx, files, clientCreated,
                   submitted, opened>>

\* ------------------------------------------------------------------------
\* main(), lines 102-120
\* ------------------------------------------------------------------------
\* Exceptions the client library raises from Client(), query() or result().
ClientExceptions == {"GoogleAPIError", "KeyError"}

\* client = bigquery.Client(project=PROJECT_ID)
CreateClient ==
    /\ pc = "client"
    /\ clientCreated' = TRUE
    /\ pc' = "now"
    /\ UNCHANGED <<environ, job, clock, now, returned, rows, idx, files,
                   submitted, opened, exc, exitCode, stderr>>

CreateClientFail ==
    /\ pc = "client"
    /\ clientCreated' = TRUE
    /\ \E e \in ClientExceptions : Raise(e, "")
    /\ UNCHANGED <<environ, job, clock, now, returned, rows, idx, files, submitted, opened>>

\* now = datetime.now(timezone.utc).isoformat()
CaptureNow ==
    /\ pc = "now"
    /\ now' = UtcNowIso(clock)
    /\ job' = "card"
    /\ pc' = "query"
    /\ UNCHANGED <<environ, clock, returned, rows, idx, files, clientCreated,
                   submitted, opened, exc, exitCode, stderr>>

\* Time passes while the script runs.
Tick ==
    /\ pc # "exited"
    /\ clock < MaxClock
    /\ clock' = clock + 1
    /\ UNCHANGED <<environ, pc, job, now, returned, rows, idx, files, clientCreated,
                   submitted, opened, exc, exitCode, stderr>>

\* run_query: [dict(row) for row in rows]
RunQueryReversed(result) == [i \in 1..Len(result) |-> result[Len(result) + 1 - i]]
run_query(result) == [i \in 1..Len(result) |-> result[i]]

\* card_rows = run_query(...) / set_rows = run_query(...): the warehouse
\* answers with some result.
RunQueryOk ==
    /\ pc = "query"
    /\ submitted' = [submitted EXCEPT ![job] = @ + 1]
    /\ \E result \in Results :
           /\ returned' = [returned EXCEPT ![job] = result]
           /\ rows' = [rows EXCEPT ![job] = run_query(result)]
    /\ pc' = "open"
    /\ UNCHANGED <<environ, job, clock, now, idx, files, clientCreated, opened,
                   exc, exitCode, stderr>>

\* client.query(sql).result() raises.
RunQueryFailAfterOpen ==
    /\ pc = "query"
    /\ submitted' = [submitted EXCEPT ![job] = @ + 1]
    /\ files' = [files EXCEPT ![job] = Truncated]
    /\ \E e \in ClientExceptions : Raise(e, "")
    /\ UNCHANGED <<environ, job, clock, now, returned, rows, idx, clientCreated, opened>>
RunQueryFailRetry ==
    /\ pc = "query"
    /\ submitted[job] < 2
    /\ submitted' = [submitted EXCEPT ![job] = @ + 1]
    /\ UNCHANGED <<environ, pc, job, clock, now, returned, rows, idx, files,
                   clientCreated, opened, exc, exitCode, stderr>>
RunQueryFail ==
    /\ pc = "query"
    /\ submitted' = [submitted EXCEPT ![job] = @ + 1]
    /\ \E e \in ClientExceptions : Raise(e, "")
    /\ UNCHANGED <<environ, job, clock, now, returned, rows, idx, files, clientCreated, opened>>

\* The payload main() hands to write_json, lines 109 and 116.
EnvelopeOffByOne(ts, rws) ==
    [last_updated |-> ts, record_count |-> Len(rws) + 1, data |-> rws]
Envelope(ts, rws) ==
    [last_updated |-> ts, record_count |-> Len(rws), data |-> rws]

Payload == Envelope(now, rows[job])

\* ------------------------------------------------------------------------
\* write_json(), lines 91-95
\* ------------------------------------------------------------------------
\* open(path, "w", encoding="utf-8")
OpenOk ==
    /\ pc = "open"
    /\ opened' = [opened EXCEPT ![job] = @ + 1]
    /\ files' = [files EXCEPT ![job] = Truncated]
    /\ idx' = 0
    /\ pc' = "head"
    /\ UNCHANGED <<environ, job, clock, now, returned, rows, clientCreated, submitted,
                   exc, exitCode, stderr>>

\* open() raises (missing directory, permission denied): nothing is truncated.
OpenFail ==
    /\ pc = "open"
    /\ opened' = [opened EXCEPT ![job] = @ + 1]
    /\ Raise("OSError", FileName(job))
    /\ UNCHANGED <<environ, job, clock, now, returned, rows, idx, files, clientCreated, submitted>>

\* json.dump writes the envelope chunk by chunk (indent is set, so the
\* encoder is the streaming one): first last_updated and record_count,
DumpHeadFresh ==
    /\ pc = "head"
    /\ files' = [files EXCEPT ![job] =
           AppendTok(AppendTok(@, Tok("last_updated", UtcNowIso(clock), 0, NoRow, <<>>)),
                     Tok("record_count", "", Payload.record_count, NoRow, <<>>))]
    /\ pc' = "rows"
    /\ UNCHANGED <<environ, job, clock, now, returned, rows, idx, clientCreated, submitted,
                   opened, exc, exitCode, stderr>>
DumpHead ==
    /\ pc = "head"
    /\ files' = [files EXCEPT ![job] =
           AppendTok(AppendTok(@, Tok("last_updated", Payload.last_updated, 0, NoRow, <<>>)),
                     Tok("record_count", "", Payload.record_count, NoRow, <<>>))]
    /\ pc' = "rows"
    /\ UNCHANGED <<environ, job, clock, now, returned, rows, idx, clientCreated, submitted,
                   opened, exc, exitCode, stderr>>

\* then the rows of data, one after the other,
DumpRow ==
    /\ pc = "rows"
    /\ idx < Len(Payload.data)
    /\ RowSerializable(Payload.data[idx + 1])
    /\ files' = [files EXCEPT ![job] =
           AppendTok(@, Tok("row", "", 0, EncodeRow(Payload.data[idx + 1]), <<>>))]
    /\ idx' = idx + 1
    /\ UNCHANGED <<environ, pc, job, clock, now, returned, rows, clientCreated, submitted,
                   opened, exc, exitCode, stderr>>

\* until a value has a type default() does not know: super().default(obj)
\* raises TypeError; the with statement closes the file with what was
\* written so far.
DumpRowTypeError ==
    /\ pc = "rows"
    /\ idx < Len(Payload.data)
    /\ ~RowSerializable(Payload.data[idx + 1])
    /\ files' = [files EXCEPT ![job] =
           AppendTok(@, Tok("partial_row", "", 0, NoRow, PartialRow(Payload.data[idx + 1])))]
    /\ Raise("TypeError", "")
    /\ UNCHANGED <<environ, job, clock, now, returned, rows, idx, clientCreated, submitted, opened>>

\* The job after this one in main(), "" after the last.
NextJob(j) == IF j = "card" THEN "set" ELSE ""

\* then the closing brackets; the file is closed, the progress line is
\* printed and main() goes on to the next job or to print("Done.").
DumpEnd ==
    /\ pc = "rows"
    /\ idx = Len(Payload.data)
    /\ files' = [files EXCEPT ![job] = AppendTok(@, Tok("end", "", 0, NoRow, <<>>))]
    /\ IF NextJob(job) # ""
       THEN job' = NextJob(job) /\ pc' = "query"
       ELSE job' = job /\ pc' = "done"
    /\ UNCHANGED <<environ, clock, now, returned, rows, idx, clientCreated, submitted,
                   opened, exc, exitCode, stderr>>

\* fh.write or the flush at close raises (disk full): the file keeps the
\* chunks that reached it.
WriteFailContinue ==
    /\ pc \in {"head", "rows"}
    /\ IF NextJob(job) # ""
       THEN job' = NextJob(job) /\ pc' = "query"
       ELSE job' = job /\ pc' = "done"
    /\ UNCHANGED <<environ, clock, now, returned, rows, idx, files, clientCreated,
                   submitted, opened, exc, exitCode, stderr>>
WriteFail ==
    /\ pc \in {"head", "rows"}
    /\ Raise("OSError", FileName(job))
    /\ UNCHANGED <<environ, job, clock, now, returned, rows, idx, files, clientCreated,
                   submitted, opened>>

\* print("Done."); main() returns and the script ends.
Finish ==
    /\ pc = "done"
    /\ exitCode' = 0
    /\ pc' = "exited"
    /\ UNCHANGED <<environ, job, clock, now, returned, rows, idx, files, clientCreated,
                   submitted, opened, exc, stderr>>

Next ==
    \/ ImportOk
    \/ ImportKeyError
    \/ CreateClient
    \/ CreateClientFail
    \/ CaptureNow
    \/ Tick
    \/ RunQueryOk
    \/ RunQueryFail
    \/ OpenOk
    \/ OpenFail
    \/ DumpHead
    \/ DumpRow
    \/ DumpRowTypeError
    \/ DumpEnd
    \/ WriteFail
    \/ Finish

Spec == Init /\ [][Next]_vars

\* ------------------------------------------------------------------------
\* Properties
\* ------------------------------------------------------------------------
Exited == pc = "exited"

\* The run ended in a failure of the query of job j.
QueryFailed(j) ==
    /\ Exited
    /\ job = j
    /\ submitted[j] > 0
    /\ opened[j] = 0
    /\ exc \in ClientExceptions

\* Two numbers have the same numeric value.
NumEq(a, b) ==
    /\ a.big = b.big
    /\ a.units * Pow10(b.scale) = b.units * Pow10(a.scale)

\* The value written for column c of returned row i of job j.
Written(j, i, c) == files[j].text[i + 2].row[c]

\* The rows of job j that are fully written in its file.
WrittenRows(j) ==
    {i \in 1..Len(returned[j]) :
        files[j].written /\ Len(files[j].text) >= i + 2 /\ files[j].text[i + 2].t = "row"}

\* C1: every completely written envelope has record_count equal to the
\* number N of rows the warehouse returned for its query, and a data
\* array of exactly N elements.
C1_RecordCount ==
    \A j \in Jobs :
        Complete(files[j]) =>
            /\ ParsedRecordCount(files[j]) = Len(returned[j])
            /\ Len(ParsedData(files[j])) = Len(returned[j])

C1_Witness ==
    /\ Complete(files["card"]) /\ Len(returned["card"]) = 1
    /\ Complete(files["set"]) /\ Len(returned["set"]) >= 2

\* C2: last_updated is captured before the first query is submitted, and
\* every envelope written in the run carries that captured value, so the
\* two files have the same last_updated however far the clock has moved.
C2_SharedTimestamp ==
    /\ submitted["card"] > 0 => now # ""
    /\ \A j \in Jobs :
           (files[j].written /\ Len(files[j].text) >= 1) =>
               files[j].text[1].s = now
    /\ (Complete(files["card"]) /\ Complete(files["set"])) =>
           ParsedLastUpdated(files["card"]) = ParsedLastUpdated(files["set"])

C2_Witness ==
    /\ Complete(files["card"])
    /\ Complete(files["set"])
    /\ now # UtcNowIso(clock)

C4_MissingEnv ==
    ~environ =>
        /\ pc \in {"import", "exited"}
        /\ ~clientCreated
        /\ \A j \in Jobs : submitted[j] = 0 /\ opened[j] = 0 /\ files[j] = PreRun
        /\ Exited =>
               /\ exitCode > 0
               /\ \E i \in 1..Len(stderr) : stderr[i].arg = "GCP_PROJECT_ID"

C4_Witness == ~environ /\ Exited

\* C5: after the run has ended, each output file either has its pre-run
\* content or holds one complete envelope; none is empty or partial.
C5_NoPartialFile ==
    Exited => \A j \in Jobs : files[j] = PreRun \/ Complete(files[j])

\* C6 as claimed: every written value is determined by the type of the
\* returned value: a Decimal becomes a float of the same numeric value, a
\* datetime, date or time becomes its isoformat() string, the native
\* types pass through, and any other type is never written but ends the
\* write with TypeError.
TypeRule(v, w) ==
    /\ v.type \in IsoTypes => w = StrV(isoformat(v))
    /\ v.type \in NativeTypes => w = v
    /\ v.type \notin (IsoTypes \cup NativeTypes \cup {"Decimal"}) => FALSE

NoSilentDrop ==
    \A j \in Jobs :
        /\ Complete(files[j]) => \A i \in 1..Len(returned[j]) : RowSerializable(returned[j][i])
        /\ (files[j].written /\ \E k \in 1..Len(files[j].text) : files[j].text[k].t = "partial_row")
               => exc = "TypeError" /\ exitCode > 0 /\ ~Complete(files[j])

C6_SameValue ==
    /\ \A j \in Jobs : \A i \in WrittenRows(j) : \A k \in 1..Len(Columns) :
           LET v == returned[j][i][Columns[k]]
               w == Written(j, i, Columns[k])
           IN /\ TypeRule(v, w)
              /\ v.type = "Decimal" => w.type = "float" /\ NumEq(w, v)
    /\ NoSilentDrop

\* C6 amended: as above, but a Decimal becomes the float nearest to it:
\* of the same numeric value when the Decimal has at most 15 significant
\* digits, and at most one away from it for an integer in [2^53, 2^54).
C6_NearestFloat ==
    /\ \A j \in Jobs : \A i \in WrittenRows(j) : \A k \in 1..Len(Columns) :
           LET v == returned[j][i][Columns[k]]
               w == Written(j, i, Columns[k])
           IN /\ TypeRule(v, w)
              /\ v.type = "Decimal" =>
                     /\ w.type = "float"
                     /\ SigDigits(v) <= DBL_DIG => NumEq(w, v)
                     /\ v.big = 1 =>
                            /\ w.big = 1 /\ w.scale = 0 /\ w.units % 2 = 0
                            /\ w.units - v.units \in {-1, 0, 1}
    /\ NoSilentDrop

C6_Witness ==
    /\ Complete(files["card"])
    /\ \E i \in WrittenRows("card") :
           /\ returned["card"][i].raw_price = DecimalV(1250, 2)
           /\ Written("card", i, "raw_price") = FloatV(125, 1)
    /\ \E i \in WrittenRows("card") :
           /\ returned["card"][i].raw_price = BigDecimalV(1)
           /\ Written("card", i, "raw_price") = BigFloatV(0)
    /\ exc = "TypeError"

\* C7: the exit code is 0 exactly when both files were completely written
\* by the run, and every failure gives a non-zero exit code.
C7_ExitCode ==
    Exited =>
        /\ exitCode = 0 <=> (Complete(files["card"]) /\ Complete(files["set"]))
        /\ exitCode >= 0
        /\ exc # "" => exitCode > 0

C7_Witness ==
    /\ Exited
    /\ exc = "KeyError"
    /\ clientCreated
    /\ Complete(files["card"])
    /\ Len(stderr) = 1 /\ stderr[1].kind = "message"

\* C8: the data array of a written envelope lists the returned rows in the
\* order the warehouse returned them, each with its own column -> value
\* mapping: no row is reordered, dropped, duplicated or merged.
C8_RowOrder ==
    \A j \in Jobs :
        Complete(files[j]) =>
            /\ Len(ParsedData(files[j])) = Len(returned[j])
            /\ \A i \in 1..Len(returned[j]) : \A k \in 1..Len(Columns) :
                   ParsedData(files[j])[i][Columns[k]] = JSONValue(returned[j][i][Columns[k]])

C8_Witness ==
    /\ Complete(files["set"])
    /\ Len(returned["set"]) = 2
    /\ returned["set"][1] # returned["set"][2]

\* C9: the jobs run in sequence: the set_metrics query is submitted, and
\* set_metrics.json opened or written, only after card_metrics.json is
\* completely written and closed, and each file is opened at most once.
C9_Sequential ==
    /\ (submitted["set"] > 0 \/ opened["set"] > 0 \/ files["set"].written) =>
           /\ Complete(files["card"])
           /\ job = "set"
    /\ \A j \in Jobs : opened[j] <= 1

C9_Witness ==
    /\ files["set"].written
    /\ ~Complete(files["set"])
    /\ Len(files["set"].text) >= 3

\* C10: no retry: each query is submitted at most once, and a run in which
\* job 1 failed (its file is not completely written at exit) never
\* submitted the set_metrics query nor opened set_metrics.json.
C10_AbortOnFirstFailure ==
    /\ \A j \in Jobs : submitted[j] <= 1
    /\ (Exited /\ ~Complete(files["card"])) =>
           /\ exitCode > 0
           /\ submitted["set"] = 0
           /\ opened["set"] = 0
           /\ files["set"] = PreRun

C10_Witness ==
    /\ Exited
    /\ submitted["card"] = 1
    /\ files["card"].written
    /\ ~Complete(files["card"])
    /\ exc = "OSError"

====
